---- MODULE Spec2Model ----
(***************************************************************************)
(* qelos/transformer.py: the MultiHeadAttention core and its incremental   *)
(* ("cell mode") decoding state, and the TS2S encoder-decoder built from   *)
(* such cores, with its cached encoder context.                            *)
(*                                                                         *)
(* Tensors are abstracted to what the claims speak about: a tensor with a  *)
(* time axis is the sequence of its steps, the batch axis is dropped       *)
(* (batch size 1), and a learned linear projection is an uninterpreted     *)
(* injective tagging of its input.  The result of a forward call is, per   *)
(* query row, the query vector and the set of key positions the softmax    *)
(* gives weight to, each with its key, its value and its relative-position *)
(* term.  Dropout is disabled (rate 0) and scaling does not change which   *)
(* positions are attended.                                                 *)
(***************************************************************************)
EXTENDS Integers, Sequences, FiniteSets, TLC

\* ---------------------------------------------------------------- bounds
MaxQLen == 2        \* longest sequence given to one forward call
MaxHorizon == 2     \* largest horizon given to set_cell_mode
MaxHist == 2        \* forward is explored while the history holds at most this many steps
maxlen == 2         \* the constructor's maxlen (512 by default)
numlayers == 2      \* the layers of an encoder and of a decoder (6 by default)

\* Python's None; every optional value is a sequence, None the empty one.
None == << >>

\* the input vectors: two, to tell one step from another
Tokens == {1, 2}
Seqs(n) == UNION {[1 .. l -> Tokens] : l \in 1 .. n}

\* ------------------------------------------------- constructor arguments
InDims == {4}
KVDims == {None, <<5>>}
NumHeads == {2}
RelposModes == {"off", "simple", "full"}
\* every direction and relative-position mode with the default widths, and
\* the unidirectional core without relative positions with every width
Ctors ==
    {c \in [indim : InDims, kdim : KVDims, vdim : KVDims, numheads : NumHeads,
            bidir : BOOLEAN, relpos : RelposModes] :
        \/ c.kdim = None /\ c.vdim = None
        \/ ~c.bidir /\ c.relpos = "off"}

VARIABLES
    ctor,                   \* the arguments __init__ was called with
    _cell_mode, _horizon, _lm_mode,
    _prev_k, _prev_v,
    _cache_relpos_sizes, _cache_relpos_vec,
    ts2s,                   \* a TS2S: _cell_mode, _x, _ctx, _ctxmask
    encoder,                \* its TransformerEncoder: the layers
    decoder,                \* its TransformerDecoder: _lm_mode, _cell_mode, _posoffset, the layers
    call,                   \* the last operation and its arguments
    ret                     \* its outcome

vars == <<ctor, _cell_mode, _horizon, _lm_mode, _prev_k, _prev_v,
          _cache_relpos_sizes, _cache_relpos_vec, ts2s, encoder, decoder, call, ret>>

\* the fields of the one core, and the TS2S with its encoder and decoder
core == <<_cell_mode, _horizon, _lm_mode, _prev_k, _prev_v,
          _cache_relpos_sizes, _cache_relpos_vec>>
tree == <<ts2s, encoder, decoder>>

\* ------------------------------------------------------------- __init__
numheads == ctor.numheads
indim == ctor.indim
bidir == ctor.bidir
relpos == ctor.relpos
vdim == IF ctor.vdim = None THEN ctor.indim ELSE ctor.vdim[1]
kdim == IF ctor.kdim = None THEN ctor.indim ELSE ctor.kdim[1]
d_k == kdim \div numheads
d_v == vdim \div numheads
\* relpos_emb is built for relpos True and "full", relpos_k_proj for "full"
relpos_emb_set_always(s) == TRUE
relpos_emb_set(s) == s.relpos \in {"simple", "full"}
relpos_k_proj_set(s) == s.relpos = "full"

q_proj(t) == <<"q", t>>
k_proj(t) == <<"k", t>>
v_proj(t) == <<"v", t>>
relpos_k_proj(t) == <<"kR", t>>
\* a projection applied to every step of a tensor
q_steps(xs) == [i \in 1 .. Len(xs) |-> q_proj(xs[i])]
k_steps(xs) == [i \in 1 .. Len(xs) |-> k_proj(xs[i])]
v_steps(xs) == [i \in 1 .. Len(xs) |-> v_proj(xs[i])]

\* the frozen sinusoid table: row t holds the wave of position t - maxlen,
\* for t in 0 .. 2*maxlen - 1
relpos_emb(t) == <<"wave", t - maxlen>>
InTable_half(t) == t \in 0 .. (maxlen - 1)
InTable(t) == t \in 0 .. (2 * maxlen - 1)

\* ------------------------------------------------------ the core's state
\* One MultiHeadAttention as a record: its direction and relative-position
\* mode, fixed by __init__, and its mutable fields; so that forward can be
\* evaluated on any core: the current one, a new one, a core of a block.
Self == [bidir |-> bidir, relpos |-> relpos,
         cell_mode |-> _cell_mode, horizon |-> _horizon, lm_mode |-> _lm_mode,
         prev_k |-> _prev_k, prev_v |-> _prev_v,
         sizes |-> _cache_relpos_sizes, vec |-> _cache_relpos_vec]

\* a core right after __init__(..., bidir=b, relpos=r)
MultiHeadAttention(b, r) ==
    [bidir |-> b, relpos |-> r,
     cell_mode |-> FALSE, horizon |-> None, lm_mode |-> FALSE,
     prev_k |-> None, prev_v |-> None, sizes |-> None, vec |-> None]

Fresh == MultiHeadAttention(bidir, relpos)

\* ---------------------------------------------------------- update_prev
\* the history after one more step: the step itself when there is none yet
\* (first: _prev_k is None), else torch.cat([prev, step], 1)
Appended_drop(first, prev, step) == step

Appended(first, prev, step) == IF first THEN step ELSE prev \o step

\* update_prev with the test of v's size made after k is appended
update_prev_late(s, k, v) ==
    IF Len(k) # 1
    THEN [err |-> "assert k.size(1) == 1", prev_k |-> s.prev_k, prev_v |-> s.prev_v]
    ELSE LET nk == Appended(s.prev_k = None, s.prev_k, k)
             nv == Appended(s.prev_k = None, s.prev_v, v)
         IN  IF Len(v) # 1
             THEN [err |-> "assert v.size(1) == 1", prev_k |-> nk, prev_v |-> s.prev_v]
             ELSE IF Len(nk) > s.horizon[1]
             THEN [err |-> "can't go beyond horizon", prev_k |-> nk, prev_v |-> nv]
             ELSE [err |-> "", prev_k |-> nk, prev_v |-> nv]

\* [err, prev_k, prev_v]: the error raised ("" for none) and the history
\* the call leaves behind.  The horizon test comes after the assignment.
update_prev(s, k, v) ==
    IF Len(k) # 1
    THEN [err |-> "assert k.size(1) == 1", prev_k |-> s.prev_k, prev_v |-> s.prev_v]
    ELSE IF Len(v) # 1
    THEN [err |-> "assert v.size(1) == 1", prev_k |-> s.prev_k, prev_v |-> s.prev_v]
    ELSE IF s.prev_k = None /\ s.prev_v # None
    THEN [err |-> "assert _prev_v is None", prev_k |-> s.prev_k, prev_v |-> s.prev_v]
    ELSE LET nk == Appended(s.prev_k = None, s.prev_k, k)
             nv == Appended(s.prev_k = None, s.prev_v, v)
         IN  IF Len(nk) > s.horizon[1]
             THEN [err |-> "can't go beyond horizon", prev_k |-> nk, prev_v |-> nv]
             ELSE IF Len(nk) # Len(nv)
             THEN [err |-> "assert sizes", prev_k |-> nk, prev_v |-> nv]
             ELSE [err |-> "", prev_k |-> nk, prev_v |-> nv]

\* ----------------------------------------------- relative position matrix
\* relpos_idx[i][j] for query row i and key column j (both from 1): column
\* j-1 of arange(0, 2k) minus the right-aligned row offset (i-1) + (k - q)
RelposIdx_left(q_len, k_len) ==
    [i \in 1 .. q_len |-> [j \in 1 .. k_len |-> (j - 1) - (i - 1)]]

RelposIdx(q_len, k_len) ==
    [i \in 1 .. q_len |-> [j \in 1 .. k_len |-> (j - 1) - ((i - 1) + (k_len - q_len))]]

\* [err, sizes, vec, ran]: the single-slot cache after the lookup of a call
\* with sizes (q_len, k_len), recomputed only when the cached sizes differ;
\* ran: the modules the call ran, here the table relpos_emb
relpos_cache_always(s, q_len, k_len) ==
    IF k_len - q_len < 0
    THEN [err |-> "assert relpos_offset >= 0", sizes |-> s.sizes, vec |-> s.vec,
          ran |-> {}]
    ELSE LET idx == RelposIdx(q_len, k_len)
         IN  IF \E i \in 1 .. q_len, j \in 1 .. k_len : ~InTable(idx[i][j] + maxlen)
             THEN [err |-> "index out of range", sizes |-> s.sizes, vec |-> s.vec,
                   ran |-> {"relpos_emb"}]
             ELSE [err |-> "", sizes |-> <<q_len, k_len>>,
                   vec |-> [i \in 1 .. q_len |->
                               [j \in 1 .. k_len |-> relpos_emb(idx[i][j] + maxlen)]],
                   ran |-> {"relpos_emb"}]

relpos_cache_reuses(s, q_len, k_len) ==
    IF s.sizes # None /\ s.sizes[2] = k_len /\ s.sizes[1] >= q_len
    THEN [err |-> "", sizes |-> s.sizes, vec |-> s.vec, ran |-> {}]
    ELSE relpos_cache_always(s, q_len, k_len)

relpos_cache(s, q_len, k_len) ==
    IF s.sizes # <<q_len, k_len>>
    THEN IF k_len - q_len < 0
         THEN [err |-> "assert relpos_offset >= 0", sizes |-> s.sizes, vec |-> s.vec,
               ran |-> {}]
         ELSE LET idx == RelposIdx(q_len, k_len)
              IN  IF \E i \in 1 .. q_len, j \in 1 .. k_len : ~InTable(idx[i][j] + maxlen)
                  THEN [err |-> "index out of range", sizes |-> s.sizes, vec |-> s.vec,
                        ran |-> {"relpos_emb"}]
                  ELSE [err |-> "", sizes |-> <<q_len, k_len>>,
                        vec |-> [i \in 1 .. q_len |->
                                    [j \in 1 .. k_len |-> relpos_emb(idx[i][j] + maxlen)]],
                        ran |-> {"relpos_emb"}]
    ELSE [err |-> "", sizes |-> s.sizes, vec |-> s.vec, ran |-> {}]

\* ------------------------------------------------------------------ mask
\* the row of tril(ones(k, k)) that masks query row i: the last q rows when
\* q < k, row i when q = k; with q > k the k rows broadcast only when k = 1
CausalRow_left(i, q_len, k_len) == i

CausalRow(i, q_len, k_len) ==
    IF q_len < k_len THEN k_len - q_len + i
    ELSE IF q_len = k_len THEN i
    ELSE 1

CausalAllowed(i, j, q_len, k_len) == j <= CausalRow(i, q_len, k_len)

\* wholemask[i][j] = 1: the padding mask times, when unidirectional, the
\* causality mask
Allowed(s, mask, i, j, q_len, k_len) ==
    /\ mask # None => mask[IF Len(mask) = 1 THEN 1 ELSE j]
    /\ ~s.bidir => CausalAllowed(i, j, q_len, k_len)

\* whether w + log(wholemask) broadcasts
MaskShapeOk(s, mask, q_len, k_len) ==
    /\ mask # None => Len(mask) \in {1, k_len}
    /\ ~s.bidir /\ q_len > k_len => k_len = 1

\* --------------------------------------------------------------- forward
\* the relative-position term of the score of query row i and key column j:
\* none, q . k_proj(relvec), and in "full" mode also u . relpos_k_proj(_k[j])
\* and v . relpos_k_proj(relvec)
RelTerm(s, vec, _k, i, j) ==
    IF ~relpos_emb_set(s) THEN None
    ELSE IF ~relpos_k_proj_set(s) THEN <<k_proj(vec[i][j])>>
    ELSE <<k_proj(vec[i][j]), relpos_k_proj(_k[j]), relpos_k_proj(vec[i][j])>>

\* what the call returns for query row i: the query and, for every key
\* column the softmax leaves weight on, the key, the value and the
\* relative-position term.  No column left: the row is NaN.
OutRow(s, q, k, v, vec, _k, mask, i) ==
    [q |-> q[i],
     att |-> {[j |-> j, k |-> k[j], v |-> v[j], rel |-> RelTerm(s, vec, _k, i, j)] :
                j \in {c \in 1 .. Len(k) : Allowed(s, mask, i, c, Len(q), Len(k))}}]

\* qk: the sizes (q_len, k_len) the call entered the relative-position
\* region with, None when it did not enter it; ran: the modules it ran there
Raised(err, prev_k, prev_v, sizes, vec) ==
    [err |-> err, prev_k |-> prev_k, prev_v |-> prev_v, sizes |-> sizes, vec |-> vec,
     out |-> << >>, qk |-> None, ran |-> {}]

\* forward on core s: [err, prev_k, prev_v, sizes, vec, out, qk, ran], the
\* error raised ("" for none), the fields the call leaves behind, the
\* output, and what the relative-position region did
forward(s, x, k_arg, v_arg, mask) ==
    IF s.cell_mode /\ mask # None
    THEN Raised("mask in cell mode", s.prev_k, s.prev_v, s.sizes, s.vec)
    ELSE
    LET _k == IF k_arg = None THEN x ELSE k_arg
        _v == IF v_arg = None THEN _k ELSE v_arg
        q == q_steps(x)
        up == IF s.cell_mode
              THEN update_prev(s, k_steps(_k), v_steps(_v))
              ELSE [err |-> "", prev_k |-> s.prev_k, prev_v |-> s.prev_v]
        k == IF s.cell_mode THEN up.prev_k ELSE k_steps(_k)
        v == IF s.cell_mode THEN up.prev_v ELSE v_steps(_v)
    IN
    IF up.err # ""
    THEN Raised(up.err, up.prev_k, up.prev_v, s.sizes, s.vec)
    ELSE
    LET rp == IF relpos_emb_set(s)
              THEN relpos_cache(s, Len(q), Len(k))
              ELSE [err |-> "", sizes |-> s.sizes, vec |-> s.vec, ran |-> {}]
        qk == IF relpos_emb_set(s) THEN <<Len(q), Len(k)>> ELSE None
    IN
    IF rp.err # ""
    THEN [Raised(rp.err, up.prev_k, up.prev_v, rp.sizes, rp.vec)
            EXCEPT !.qk = qk, !.ran = rp.ran]
    ELSE
    LET ran1 == IF relpos_emb_set(s) THEN rp.ran \cup {"k_proj"} ELSE {}
        ran == IF relpos_k_proj_set(s) THEN ran1 \cup {"relpos_k_proj"} ELSE ran1
    IN
    IF relpos_k_proj_set(s) /\ s.cell_mode
    THEN [Raised("implementation wrong: _k used but in cell mode it's bad",
                 up.prev_k, up.prev_v, rp.sizes, rp.vec)
            EXCEPT !.qk = qk, !.ran = ran1]
    ELSE IF ~MaskShapeOk(s, mask, Len(q), Len(k))
    THEN [Raised("mask shape", up.prev_k, up.prev_v, rp.sizes, rp.vec)
            EXCEPT !.qk = qk, !.ran = ran]
    ELSE IF Len(v) # Len(k)
    THEN [Raised("einsum bhsz,bzhd", up.prev_k, up.prev_v, rp.sizes, rp.vec)
            EXCEPT !.qk = qk, !.ran = ran]
    ELSE IF numheads * d_v # vdim
    THEN [Raised("vw_proj shape", up.prev_k, up.prev_v, rp.sizes, rp.vec)
            EXCEPT !.qk = qk, !.ran = ran]
    ELSE [err |-> "", prev_k |-> up.prev_k, prev_v |-> up.prev_v,
          sizes |-> rp.sizes, vec |-> rp.vec,
          out |-> [i \in 1 .. Len(q) |-> OutRow(s, q, k, v, rp.vec, _k, mask, i)],
          qk |-> qk, ran |-> ran]

\* ------------------------------------------------------------ operations
\* call.steps: the number of steps the history held when the call was made
NoArgs == [op |-> "", x |-> None, k |-> None, v |-> None, mask |-> None,
           val |-> FALSE, horizon |-> None, lm_mode |-> FALSE, steps |-> 0]

\* ------------------------------------------ the TS2S, as TS2S_arg builds it
\* ctor gives dim, kdim, vdim, numheads and relpos of every core of the
\* tree; the blocks fix the direction of their cores.
TransformerEncoderBlock == [slf_attn |-> MultiHeadAttention(TRUE, relpos)]

\* noctx is False: the block has a cross-attention core, without relative positions
TransformerDecoderBlock ==
    [slf_attn |-> MultiHeadAttention(FALSE, relpos),
     ctx_attn |-> MultiHeadAttention(TRUE, "off")]

TransformerEncoder == [layers |-> [l \in 1 .. numlayers |-> TransformerEncoderBlock]]

TransformerDecoder ==
    [lm_mode |-> FALSE, cell_mode |-> FALSE, posoffset |-> 0,
     layers |-> [l \in 1 .. numlayers |-> TransformerDecoderBlock]]

TS2S == [cell_mode |-> FALSE, x |-> None, ctx |-> None, ctxmask |-> None]

\* absolute position embeddings exist when relative positions are off
posemb_set == relpos = "off"

\* what a call that is no forward call returns
NoRet == [err |-> "", out |-> << >>, qk |-> None, ran |-> {}]

Init ==
    /\ ctor \in Ctors
    /\ _cell_mode = FALSE
    /\ _horizon = None
    /\ _lm_mode = FALSE
    /\ _prev_k = None
    /\ _prev_v = None
    /\ _cache_relpos_sizes = None
    /\ _cache_relpos_vec = None
    /\ ts2s = TS2S
    /\ encoder = TransformerEncoder
    /\ decoder = TransformerDecoder
    /\ call = [NoArgs EXCEPT !.op = "__init__"]
    /\ ret = NoRet

\* set_cell_mode with the fields assigned before the assertions
set_cell_mode_assign_first(val, horizon, lm_mode) ==
    /\ UNCHANGED tree
    /\ call' = [NoArgs EXCEPT !.op = "set_cell_mode", !.val = val,
                              !.horizon = horizon, !.lm_mode = lm_mode,
                              !.steps = Len(_prev_k)]
    /\ ret' = [err |-> IF val /\ horizon = None THEN "assert horizon is not None"
                       ELSE IF val /\ bidir THEN "assert bidir == False"
                       ELSE "",
               out |-> << >>, qk |-> None, ran |-> {}]
    /\ _cell_mode' = val
    /\ _horizon' = horizon
    /\ _lm_mode' = lm_mode
    /\ UNCHANGED <<ctor, _prev_k, _prev_v, _cache_relpos_sizes, _cache_relpos_vec>>

set_cell_mode(val, horizon, lm_mode) ==
    /\ UNCHANGED tree
    /\ call' = [NoArgs EXCEPT !.op = "set_cell_mode", !.val = val,
                              !.horizon = horizon, !.lm_mode = lm_mode,
                              !.steps = Len(_prev_k)]
    /\ IF val /\ horizon = None
       THEN /\ ret' = [NoRet EXCEPT !.err = "assert horizon is not None"]
            /\ UNCHANGED <<_cell_mode, _horizon, _lm_mode>>
       ELSE IF val /\ bidir
       THEN /\ ret' = [NoRet EXCEPT !.err = "assert bidir == False"]
            /\ UNCHANGED <<_cell_mode, _horizon, _lm_mode>>
       ELSE /\ ret' = NoRet
            /\ _cell_mode' = val
            /\ _horizon' = horizon
            /\ _lm_mode' = lm_mode
    /\ UNCHANGED <<ctor, _prev_k, _prev_v, _cache_relpos_sizes, _cache_relpos_vec>>

epoch_reset ==
    /\ UNCHANGED tree
    /\ call' = [NoArgs EXCEPT !.op = "epoch_reset", !.steps = Len(_prev_k)]
    /\ ret' = NoRet
    /\ _prev_k' = None
    /\ _prev_v' = None
    /\ UNCHANGED <<ctor, _cell_mode, _horizon, _lm_mode,
                   _cache_relpos_sizes, _cache_relpos_vec>>

\* rec_reset that forgets the value history, and rec_reset that forgets lm_mode
rec_reset_keeps_v ==
    /\ UNCHANGED tree
    /\ call' = [NoArgs EXCEPT !.op = "rec_reset", !.steps = Len(_prev_k)]
    /\ ret' = NoRet
    /\ IF ~_lm_mode THEN _prev_k' = None ELSE UNCHANGED _prev_k
    /\ UNCHANGED <<ctor, _cell_mode, _horizon, _lm_mode, _prev_v,
                   _cache_relpos_sizes, _cache_relpos_vec>>

rec_reset_ignores_lm ==
    /\ UNCHANGED tree
    /\ call' = [NoArgs EXCEPT !.op = "rec_reset", !.steps = Len(_prev_k)]
    /\ ret' = NoRet
    /\ _prev_k' = None
    /\ _prev_v' = None
    /\ UNCHANGED <<ctor, _cell_mode, _horizon, _lm_mode,
                   _cache_relpos_sizes, _cache_relpos_vec>>

rec_reset ==
    /\ UNCHANGED tree
    /\ call' = [NoArgs EXCEPT !.op = "rec_reset", !.steps = Len(_prev_k)]
    /\ ret' = NoRet
    /\ IF ~_lm_mode
       THEN _prev_k' = None /\ _prev_v' = None
       ELSE UNCHANGED <<_prev_k, _prev_v>>
    /\ UNCHANGED <<ctor, _cell_mode, _horizon, _lm_mode,
                   _cache_relpos_sizes, _cache_relpos_vec>>

Forward(x, k, v, mask) ==
    /\ UNCHANGED tree
    /\ Len(_prev_k) <= MaxHist /\ Len(_prev_v) <= MaxHist
    /\ LET r == forward(Self, x, k, v, mask)
       IN  /\ call' = [NoArgs EXCEPT !.op = "forward", !.x = x, !.k = k,
                                     !.v = v, !.mask = mask,
                                     !.steps = Len(_prev_k)]
           /\ ret' = [err |-> r.err, out |-> r.out, qk |-> r.qk, ran |-> r.ran]
           /\ _prev_k' = r.prev_k
           /\ _prev_v' = r.prev_v
           /\ _cache_relpos_sizes' = r.sizes
           /\ _cache_relpos_vec' = r.vec
    /\ UNCHANGED <<ctor, _cell_mode, _horizon, _lm_mode>>

\* ------------------------------------------------- the methods of a core
\* the methods as functions of a core record, for the cores of the blocks
\* set_cell_mode: [err, core]
MHA_set_cell_mode(s, val, horizon, lm_mode) ==
    IF val /\ horizon = None
    THEN [err |-> "assert horizon is not None", core |-> s]
    ELSE IF val /\ s.bidir
    THEN [err |-> "assert bidir == False", core |-> s]
    ELSE [err |-> "",
          core |-> [s EXCEPT !.cell_mode = val, !.horizon = horizon,
                             !.lm_mode = lm_mode]]

MHA_rec_reset(s) ==
    IF ~s.lm_mode THEN [s EXCEPT !.prev_k = None, !.prev_v = None] ELSE s

\* the core after a forward call with result r
MHA_after(s, r) ==
    [s EXCEPT !.prev_k = r.prev_k, !.prev_v = r.prev_v,
              !.sizes = r.sizes, !.vec = r.vec]

\* x * mask.float().unsqueeze(-1): the masked steps become zero vectors
Masked(x, mask) ==
    IF mask = None THEN x
    ELSE [i \in 1 .. Len(x) |->
            IF mask[IF Len(mask) = 1 THEN 1 ELSE i] THEN x[i] ELSE 0]

\* the summary of a query row: the softmax's weights are left out, what
\* remains of the weighted sum is the set of the values it mixes
Mix(row) == {e.v : e \in row.att}

\* ----------------------------------------------------------- the blocks
\* The residual sums, the layer norms and the feed-forward are a tag on
\* what they are applied to.  A forward is written as a chain: each link
\* takes the result of the call before it.
\* TransformerEncoderBlock.forward after its self-attention a on xm
EncoderBlock_slf(b, xm, a) ==
    [err |-> a.err,
     block |-> [b EXCEPT !.slf_attn = MHA_after(@, a)],
     h |-> IF a.err # "" THEN << >>
           ELSE [i \in 1 .. Len(xm) |-> <<"ln_ff", xm[i], Mix(a.out[i])>>]]

\* TransformerEncoderBlock.forward: [err, block, h]
TransformerEncoderBlock_forward(b, x, mask) ==
    IF mask # None /\ Len(mask) \notin {1, Len(x)}
    THEN [err |-> "mask shape", block |-> b, h |-> << >>]
    ELSE EncoderBlock_slf(b, Masked(x, mask),
                          forward(b.slf_attn, Masked(x, mask), None, None, mask))

\* TransformerDecoderBlock.set_cell_mode that tells both cores
TransformerDecoderBlock_set_cell_mode_both(b, val, horizon, lm_mode) ==
    LET r == MHA_set_cell_mode(b.slf_attn, val, horizon, lm_mode)
        c == MHA_set_cell_mode(b.ctx_attn, val, horizon, lm_mode)
    IN  [err |-> IF r.err # "" THEN r.err ELSE c.err,
         block |-> [b EXCEPT !.slf_attn = r.core, !.ctx_attn = c.core]]

\* TransformerDecoderBlock.set_cell_mode: [err, block]
TransformerDecoderBlock_set_cell_mode(b, val, horizon, lm_mode) ==
    LET r == MHA_set_cell_mode(b.slf_attn, val, horizon, lm_mode)
    IN  [err |-> r.err, block |-> [b EXCEPT !.slf_attn = r.core]]

\* TransformerDecoderBlock.forward after its cross-attention c on na
DecoderBlock_ctx(b, na, c) ==
    [err |-> c.err,
     block |-> [b EXCEPT !.ctx_attn = MHA_after(@, c)],
     h |-> IF c.err # "" THEN << >>
           ELSE [i \in 1 .. Len(na) |-> <<"ln_ff", na[i], Mix(c.out[i])>>]]

\* b = self.ctx_attn(na, k=ctx, mask=ctxmask)
ctx_attn_forward(s, na, ctx, ctxmask) == forward(s, na, ctx, None, ctxmask)

\* TransformerDecoderBlock.forward after its self-attention a on xm
DecoderBlock_slf(b, xm, a, ctx, ctxmask) ==
    IF a.err # ""
    THEN [err |-> a.err, block |-> [b EXCEPT !.slf_attn = MHA_after(@, a)],
          h |-> << >>]
    ELSE LET na == [i \in 1 .. Len(xm) |-> <<"ln_slf", xm[i], Mix(a.out[i])>>]
         IN  DecoderBlock_ctx([b EXCEPT !.slf_attn = MHA_after(@, a)], na,
                              ctx_attn_forward(b.ctx_attn, na, ctx, ctxmask))

\* TransformerDecoderBlock.forward: [err, block, h]
TransformerDecoderBlock_forward(b, x, ctx, mask, ctxmask) ==
    IF mask # None /\ Len(mask) \notin {1, Len(x)}
    THEN [err |-> "mask shape", block |-> b, h |-> << >>]
    ELSE DecoderBlock_slf(b, Masked(x, mask),
                          forward(b.slf_attn, Masked(x, mask), None, None, mask),
                          ctx, ctxmask)

\* ------------------------------------------------ encoder and decoder
\* for layer in self.layers: the loop after layer l gave r, p before it
LayerDone(p, l, r) ==
    [err |-> r.err, layers |-> [p.layers EXCEPT ![l] = r.block], h |-> r.h]

\* for layer in self.layers: [err, layers, h]; run[l] is the loop after l
\* layers, an error ends it
EncoderLayers(ls, h, mask) ==
    LET run[l \in 0 .. Len(ls)] ==
            IF l = 0 THEN [err |-> "", layers |-> ls, h |-> h]
            ELSE IF run[l - 1].err # "" THEN run[l - 1]
            ELSE LayerDone(run[l - 1], l,
                           TransformerEncoderBlock_forward(ls[l], run[l - 1].h, mask))
    IN  run[Len(ls)]

\* TransformerEncoder.forward after its layers gave r
Encoder_done(e, r) ==
    [err |-> r.err, encoder |-> [e EXCEPT !.layers = r.layers], h |-> r.h]

\* TransformerEncoder.forward: [err, encoder, h]; a position embedding is a
\* tag with the position (from 0) on the step
TransformerEncoder_forward(e, x, mask) ==
    IF posemb_set /\ ~(Len(x) < maxlen)
    THEN [err |-> "assert x.size(1) < maxlen", encoder |-> e, h |-> << >>]
    ELSE Encoder_done(e, EncoderLayers(e.layers,
                                       IF posemb_set
                                       THEN [i \in 1 .. Len(x) |-> <<"posemb", i - 1, x[i]>>]
                                       ELSE x,
                                       mask))

DecoderLayers(ls, h, ctx, mask, ctxmask) ==
    LET run[l \in 0 .. Len(ls)] ==
            IF l = 0 THEN [err |-> "", layers |-> ls, h |-> h]
            ELSE IF run[l - 1].err # "" THEN run[l - 1]
            ELSE LayerDone(run[l - 1], l,
                           TransformerDecoderBlock_forward(ls[l], run[l - 1].h, ctx,
                                                           mask, ctxmask))
    IN  run[Len(ls)]

\* TransformerDecoder.forward after its layers gave r
Decoder_done(d, r) ==
    [err |-> r.err,
     decoder |-> [d EXCEPT !.layers = r.layers,
                           !.posoffset = IF r.err = "" /\ d.cell_mode THEN @ + 1 ELSE @],
     h |-> r.h]

\* TransformerDecoder.forward: [err, decoder, h]
TransformerDecoder_forward(d, x, ctx, mask, ctxmask) ==
    IF posemb_set /\ ~(Len(x) <= maxlen - d.posoffset)
    THEN [err |-> "assert x.size(1) <= maxlen - _posoffset", decoder |-> d, h |-> << >>]
    ELSE Decoder_done(d, DecoderLayers(d.layers,
                                       IF posemb_set
                                       THEN [i \in 1 .. Len(x) |->
                                               <<"posemb", i - 1 + d.posoffset, x[i]>>]
                                       ELSE x,
                                       ctx, mask, ctxmask))

\* for layer in self.layers: layer.set_cell_mode(...): [err, layers]
LayersSetCellMode(ls, val, horizon, lm_mode) ==
    LET run[l \in 0 .. Len(ls)] ==
            IF l = 0 THEN [err |-> "", layers |-> ls]
            ELSE IF run[l - 1].err # "" THEN run[l - 1]
            ELSE LET r == TransformerDecoderBlock_set_cell_mode(ls[l], val, horizon,
                                                               lm_mode)
                 IN  [err |-> r.err,
                      layers |-> [run[l - 1].layers EXCEPT ![l] = r.block]]
    IN  run[Len(ls)]

\* TransformerDecoder.set_cell_mode: [err, decoder]; the decoder's own
\* flags are assigned before the layers are told
TransformerDecoder_set_cell_mode(d, val, horizon, lm_mode) ==
    LET r == LayersSetCellMode(d.layers, val, horizon, lm_mode)
    IN  [err |-> r.err,
         decoder |-> [d EXCEPT !.cell_mode = val, !.lm_mode = lm_mode,
                               !.layers = r.layers]]

TransformerDecoder_rec_reset(d) ==
    IF ~d.lm_mode THEN [d EXCEPT !.posoffset = 0] ELSE d

\* -------------------------------------------------- the TS2S operations
\* call: op, the arguments of forward (x, y, xmask, ymask) and of
\* set_cell_mode, and the context that was cached when the call was made;
\* ret: the error, the output, the modules the call ran (encoder, decoder)
\* and the context and context mask the decoder was given
TreeNoArgs == [op |-> "", x |-> None, y |-> None, xmask |-> None, ymask |-> None,
               val |-> FALSE, horizon |-> None, lm_mode |-> FALSE, cached |-> None]
TreeCall(op) == [TreeNoArgs EXCEPT !.op = op, !.cached = ts2s.ctx]
TreeNoRet == [err |-> "", out |-> << >>, ran |-> {}, ctx |-> None, ctxmask |-> None]

\* TS2S.set_cell_mode that refuses lm_mode after it has told the decoder
TS2S_set_cell_mode_late(val, horizon, lm_mode) ==
    /\ call' = [TreeCall("TS2S.set_cell_mode") EXCEPT !.val = val,
                                  !.horizon = horizon, !.lm_mode = lm_mode]
    /\ LET r == TransformerDecoder_set_cell_mode(decoder, val, horizon, lm_mode)
       IN  /\ ret' = [TreeNoRet EXCEPT !.err =
                        IF r.err # "" THEN r.err
                        ELSE IF lm_mode
                        THEN "lm_mode=True is not supported in transformer-based seq2seq"
                        ELSE ""]
           /\ ts2s' = [ts2s EXCEPT !.cell_mode = val]
           /\ decoder' = r.decoder
    /\ UNCHANGED <<ctor, core, encoder>>

TS2S_set_cell_mode(val, horizon, lm_mode) ==
    /\ call' = [TreeCall("TS2S.set_cell_mode") EXCEPT !.val = val,
                                  !.horizon = horizon, !.lm_mode = lm_mode]
    /\ IF lm_mode
       THEN /\ ret' = [TreeNoRet EXCEPT !.err =
                         "lm_mode=True is not supported in transformer-based seq2seq"]
            /\ UNCHANGED <<ts2s, decoder>>
       ELSE LET r == TransformerDecoder_set_cell_mode(decoder, val, horizon, lm_mode)
            IN  /\ ret' = [TreeNoRet EXCEPT !.err = r.err]
                /\ ts2s' = [ts2s EXCEPT !.cell_mode = val]
                /\ decoder' = r.decoder
    /\ UNCHANGED <<ctor, core, encoder>>

\* TS2S.rec_reset that keeps the cached mask
TS2S_rec_reset_keeps_mask ==
    /\ call' = TreeCall("TS2S.rec_reset")
    /\ ret' = TreeNoRet
    /\ ts2s' = [ts2s EXCEPT !.x = None, !.ctx = None]
    /\ UNCHANGED <<ctor, core, encoder, decoder>>

TS2S_rec_reset ==
    /\ call' = TreeCall("TS2S.rec_reset")
    /\ ret' = TreeNoRet
    /\ ts2s' = [ts2s EXCEPT !.x = None, !.ctx = None, !.ctxmask = None]
    /\ UNCHANGED <<ctor, core, encoder, decoder>>

\* rec_reset of the decoder and of every core of its layers, together
Decoder_rec_reset ==
    /\ call' = TreeCall("decoder.rec_reset")
    /\ ret' = TreeNoRet
    /\ decoder' = [TransformerDecoder_rec_reset(decoder) EXCEPT !.layers =
                     [l \in 1 .. Len(decoder.layers) |->
                        [slf_attn |-> MHA_rec_reset(decoder.layers[l].slf_attn),
                         ctx_attn |-> MHA_rec_reset(decoder.layers[l].ctx_attn)]]]
    /\ UNCHANGED <<ctor, core, ts2s, encoder>>

\* TS2S.forward after the decoder gave d, called with ctx and ctxmask
TS2S_decoded(ran, ctx, ctxmask, d) ==
    /\ decoder' = d.decoder
    /\ ret' = [err |-> d.err, out |-> d.h, ran |-> ran \cup {"decoder"},
               ctx |-> ctx, ctxmask |-> ctxmask]

\* the context and mask a forward call gives its decoder: the cached ones
\* in cell mode, the call's own outside it
TS2S_ctx(ts, e, xmask) ==
    IF ts.cell_mode THEN [ctx |-> ts.ctx, ctxmask |-> ts.ctxmask]
    ELSE [ctx |-> e.h, ctxmask |-> xmask]

\* TS2S.forward after the encoder, when it ran, gave e: the cache as the
\* call leaves it
TS2S_cached_always(ts, x, xmask, e) ==
    IF ts.cell_mode
    THEN [ts EXCEPT !.ctx = e.h, !.x = x, !.ctxmask = xmask]
    ELSE ts

TS2S_cached(ts, x, xmask, e) ==
    IF ts.cell_mode /\ ts.ctx = None
    THEN [ts EXCEPT !.ctx = e.h, !.x = x, !.ctxmask = xmask]
    ELSE ts

TS2S_encoded(x, y, xmask, ymask, ran, e) ==
    /\ encoder' = e.encoder
    /\ IF e.err # ""
       THEN /\ ret' = [TreeNoRet EXCEPT !.err = e.err, !.ran = ran]
            /\ UNCHANGED <<ts2s, decoder>>
       ELSE LET ts == TS2S_cached(ts2s, x, xmask, e)
                c == TS2S_ctx(ts, e, xmask)
            IN  /\ ts2s' = ts
                /\ TS2S_decoded(ran, c.ctx, c.ctxmask,
                                TransformerDecoder_forward(decoder, y, c.ctx,
                                                           ymask, c.ctxmask))

\* whether a forward call runs the encoder: always outside cell mode, in
\* cell mode when no context is cached
TS2S_encodes_always(ts) == TRUE

TS2S_encodes(ts) == ~ts.cell_mode \/ ts.ctx = None

TS2S_forward(x, y, xmask, ymask) ==
    /\ decoder.posoffset <= MaxHist
    /\ \A l \in 1 .. Len(decoder.layers) :
          Len(decoder.layers[l].slf_attn.prev_k) <= MaxHist
    /\ call' = [TreeCall("TS2S.forward") EXCEPT !.x = x, !.y = y,
                                  !.xmask = xmask, !.ymask = ymask]
    /\ IF TS2S_encodes(ts2s)
       THEN TS2S_encoded(x, y, xmask, ymask, {"encoder"},
                         TransformerEncoder_forward(encoder, x, xmask))
       ELSE TS2S_encoded(x, y, xmask, ymask, {},
                         [err |-> "", encoder |-> encoder, h |-> << >>])
    /\ UNCHANGED <<ctor, core>>

\* ----------------------------------------------------- the calls explored
Ones(n) == [j \in 1 .. n |-> TRUE]
\* the padding masks of a call whose key source has n steps
Masks(n) == {None} \cup [1 .. n -> BOOLEAN]

\* set_cell_mode: enabling with and without a horizon, disabling
SetArgs ==
    {[val |-> TRUE, horizon |-> h, lm_mode |-> lm] :
        h \in {None} \cup {<<n>> : n \in 1 .. MaxHorizon}, lm \in BOOLEAN}
    \cup {[val |-> FALSE, horizon |-> None, lm_mode |-> lm] : lm \in BOOLEAN}

\* forward, in a session: self-attention over a repeated input with and without a padding
\* mask, a value source longer than the key source, and a key source shorter
\* and longer than the query
FwdArgs ==
    UNION {{[x |-> x, k |-> None, v |-> None, mask |-> m] : m \in {None, Ones(Len(x))}} :
             x \in {[j \in 1 .. l |-> t] : t \in Tokens, l \in 1 .. MaxQLen}}
    \cup {[x |-> <<t>>, k |-> None, v |-> <<t, t>>, mask |-> None] : t \in Tokens}
    \cup {[x |-> <<t, t>>, k |-> kk, v |-> None, mask |-> None] :
             t \in Tokens, kk \in {<<1>>, <<1, 1, 1>>}}

\* forward, as the one call on a new core: every query, key source and mask
OnceArgs ==
    {a \in [x : Seqs(MaxQLen), k : {None} \cup Seqs(MaxQLen + 1), v : {None},
            mask : Masks(MaxQLen + 1)] :
        a.mask # None => Len(a.mask) = Len(IF a.k = None THEN a.x ELSE a.k)}

Next ==
    \/ \E a \in SetArgs : set_cell_mode(a.val, a.horizon, a.lm_mode)
    \/ rec_reset
    \/ epoch_reset
    \/ \E a \in FwdArgs : Forward(a.x, a.k, a.v, a.mask)

Spec == Init /\ [][Next]_vars

\* one forward call on a core right after construction
NextOnce ==
    /\ call.op = "__init__"
    /\ \E a \in OnceArgs : Forward(a.x, a.k, a.v, a.mask)

SpecOnce == Init /\ [][NextOnce]_vars

\* ------------------------------------------------------------ the TS2S
\* the calls on a TS2S: two sources that differ in their step and in their
\* mask and a source too long for the encoder; a target of one step and,
\* with a mask, a target of two
TreeSetArgs ==
    {[val |-> TRUE, horizon |-> h, lm_mode |-> lm] :
        h \in {None, <<MaxHorizon>>}, lm \in BOOLEAN}
    \cup {[val |-> FALSE, horizon |-> None, lm_mode |-> lm] : lm \in BOOLEAN}

TreeSources ==
    {[x |-> <<1>>, xmask |-> None], [x |-> <<2>>, xmask |-> <<TRUE>>],
     [x |-> <<1, 1, 1>>, xmask |-> None]}
TreeTargets ==
    {[y |-> <<1>>, ymask |-> None], [y |-> <<1, 1>>, ymask |-> <<TRUE, TRUE>>]}
TreeFwdArgs ==
    {[x |-> a.x, xmask |-> a.xmask, y |-> b.y, ymask |-> b.ymask] :
        a \in TreeSources, b \in TreeTargets}

InitTree == Init /\ ~bidir /\ ctor.kdim = None /\ ctor.vdim = None

NextTree ==
    \/ \E a \in TreeSetArgs : TS2S_set_cell_mode(a.val, a.horizon, a.lm_mode)
    \/ TS2S_rec_reset
    \/ Decoder_rec_reset
    \/ \E a \in TreeFwdArgs : TS2S_forward(a.x, a.y, a.xmask, a.ymask)

SpecTree == InitTree /\ [][NextTree]_vars

\* ================================================================ claims
\* the sources the last forward call projected its keys and values from
KeySrc == IF call.k = None THEN call.x ELSE call.k
ValSrc == IF call.v = None THEN KeySrc ELSE call.v

\* the last operation was a forward call on a core in cell mode
CellForward == call.op = "forward" /\ _cell_mode

\* ... that fed one position to self-attention, without a mask
IncrementalCall ==
    /\ CellForward
    /\ Len(call.x) = 1 /\ call.k = None /\ call.v = None /\ call.mask = None

\* the inputs whose keys the history holds, and whether it holds their values
HistTokens == [j \in 1 .. Len(_prev_k) |-> _prev_k[j][2]]
SelfHistory ==
    /\ Len(_prev_v) = Len(_prev_k)
    /\ \A j \in 1 .. Len(_prev_k) : _prev_v[j] = v_proj(HistTokens[j])

\* one forward call over the whole sequence on a core outside cell mode
FullCall == forward(Fresh, HistTokens, None, None, None)

\* C1: the n-th incremental call (n up to the horizon) over positions 1..n
\* succeeds exactly when one non-incremental call over the n positions
\* does, and its output equals that call's output at the last position,
\* in every relative-position mode.
C1_IncrementalEquivalence ==
    (IncrementalCall /\ SelfHistory /\ Len(_prev_k) <= _horizon[1]
        /\ call.steps + 1 = Len(_prev_k))
    => /\ (ret.err = "") = (FullCall.err = "")
       /\ ret.err = "" => ret.out[1] = FullCall.out[Len(_prev_k)]

\* C1, without the "full" mode: what the code does keep
C1_EquivalenceOffSimple == relpos # "full" => C1_IncrementalEquivalence

\* C2: an incremental call that brings the history to at most the horizon
\* succeeds, and the one that brings it beyond the horizon fails.
C2_HorizonEnforcement ==
    (IncrementalCall /\ call.steps + 1 = Len(_prev_k))
    => ((ret.err = "") = (Len(_prev_k) <= _horizon[1]))

\* C3: in cell mode the history never holds more steps than the horizon.
C3_HorizonBound ==
    _cell_mode => Len(_prev_k) <= _horizon[1] /\ Len(_prev_v) <= _horizon[1]

\* C4: a successful forward call in cell mode appends exactly one step to
\* the key history and to the value history, and attends over the whole
\* accumulated history: every attended column carries the history's key and
\* value of that column, and the last query row attends every column.
C4_StepAppendsOne ==
    [][(call'.op = "forward" /\ _cell_mode /\ ret'.err = "")
        => /\ Len(_prev_k') = Len(_prev_k) + 1
           /\ Len(_prev_v') = Len(_prev_v) + 1
           /\ SubSeq(_prev_k', 1, Len(_prev_k)) = _prev_k
           /\ SubSeq(_prev_v', 1, Len(_prev_v)) = _prev_v
           /\ \A i \in 1 .. Len(ret'.out) : \A e \in ret'.out[i].att :
                 e.k = _prev_k'[e.j] /\ e.v = _prev_v'[e.j]
           /\ {e.j : e \in ret'.out[Len(ret'.out)].att} = 1 .. Len(_prev_k')]_vars

C4_Witness ==
    CellForward /\ ret.err = "" /\ call.steps = 1 /\ Len(_prev_k) = 2

\* the core as it is right after set_cell_mode on a new core
FreshSession ==
    [Fresh EXCEPT !.cell_mode = TRUE, !.horizon = _horizon, !.lm_mode = _lm_mode]

\* C5: rec_reset with lm_mode false empties both histories, and a forward
\* call in cell mode on an empty history gives what it gives on a new
\* core: the same error or output and a history of the new step alone.
C5_ResetClears ==
    /\ (call.op = "rec_reset" /\ ~_lm_mode) => (_prev_k = None /\ _prev_v = None)
    /\ (CellForward /\ call.steps = 0)
        => LET r == forward(FreshSession, call.x, call.k, call.v, call.mask)
           IN  /\ ret.err = r.err /\ ret.out = r.out
               /\ _prev_k = r.prev_k /\ _prev_v = r.prev_v
               /\ ret.err = "" => /\ _prev_k = k_steps(KeySrc)
                                  /\ _prev_v = v_steps(ValSrc)
                                  /\ Len(_prev_k) = 1

C5_Witness ==
    call.op = "rec_reset" /\ ~_lm_mode /\ _cell_mode /\ call.steps = 2 /\ _prev_k = None

\* C6: rec_reset on a core whose lm_mode is true changes no field of the
\* core, so the next forward call starts from the history, cache and mode
\* it would have started from without the reset.
C6_LmResetKeeps ==
    [][(call'.op = "rec_reset" /\ _lm_mode) => Self' = Self]_vars

C6_Witness ==
    call.op = "rec_reset" /\ _lm_mode /\ _cell_mode /\ call.steps = 2 /\ Len(_prev_k) = 2

\* C7: a forward call in cell mode that is given a mask, or a key source or
\* value source of more than one step, fails and leaves both histories as
\* they were.
C7_PreconditionAtomic ==
    [][(call'.op = "forward" /\ _cell_mode
        /\ \/ call'.mask # None
           \/ Len(IF call'.k = None THEN call'.x ELSE call'.k) > 1
           \/ Len(IF call'.v # None THEN call'.v
                  ELSE IF call'.k = None THEN call'.x ELSE call'.k) > 1)
        => ret'.err # "" /\ UNCHANGED <<_prev_k, _prev_v>>]_vars

C7_Witness ==
    /\ CellForward /\ ret.err = "assert v.size(1) == 1"
    /\ Len(KeySrc) = 1 /\ Len(ValSrc) = 2
    /\ call.steps = 1 /\ Len(_prev_k) = 1 /\ Len(_prev_v) = 1

\* C8: set_cell_mode(True, ...) fails on a bidirectional core and fails
\* without a horizon; a failing call changes none of _cell_mode, _horizon,
\* _lm_mode; set_cell_mode(False, ...) never fails.
C8_SetCellModeChecks ==
    [][call'.op = "set_cell_mode"
        => /\ (call'.val /\ (bidir \/ call'.horizon = None)) => ret'.err # ""
           /\ ret'.err # "" => UNCHANGED <<_cell_mode, _horizon, _lm_mode>>
           /\ ~call'.val => ret'.err = ""]_vars

C8_Witness ==
    /\ call.op = "set_cell_mode" /\ call.val /\ call.horizon = None /\ call.lm_mode
    /\ ret.err # "" /\ _cell_mode /\ _horizon = <<MaxHorizon>> /\ ~_lm_mode

\* C9: no core exists whose key or value width is not numheads times the
\* width per head.
C9_HeadsDivide == numheads * d_k = kdim /\ numheads * d_v = vdim

\* the number of key columns of the last forward call
KLen == IF _cell_mode THEN Len(_prev_k) ELSE Len(KeySrc)

\* C10: on a unidirectional core, without a padding mask and with
\* q_len <= k_len, query row i attends key column j exactly when
\* j <= i + (k_len - q_len).
C10_CausalVisibility ==
    (call.op = "forward" /\ ret.err = "" /\ ~bidir /\ call.mask = None
        /\ Len(call.x) <= KLen)
    => \A i \in 1 .. Len(call.x) :
          {e.j : e \in ret.out[i].att}
            = {j \in 1 .. KLen : j <= i + (KLen - Len(call.x))}

C10_Witness ==
    /\ call.op = "forward" /\ ret.err = "" /\ ~bidir /\ ~_cell_mode
    /\ Len(call.x) = 2 /\ KLen = 3
    /\ {e.j : e \in ret.out[1].att} = {1, 2}

\* the softmax of a row leaves weights that sum to 1 unless every score of
\* the row is -inf: then the row's weights, and its output, are NaN
Normalised(row) == row.att # {}

\* C11: for every padding mask, on bidirectional and unidirectional cores,
\* the weights of every query row are exactly 0 on the key columns the
\* combined padding and causal mask excludes and sum to 1 over the others;
\* so every query row has at least one allowed key column, also when the
\* mask excludes the earliest keys of a unidirectional core or every key.
C11_MaskedWeights ==
    (call.op = "forward" /\ ret.err = "" /\ Len(call.x) <= KLen)
    => \A i \in 1 .. Len(call.x) :
          /\ {e.j : e \in ret.out[i].att}
               = {j \in 1 .. KLen :
                    /\ call.mask = None \/ call.mask[j]
                    /\ bidir \/ j <= i + (KLen - Len(call.x))}
          /\ Normalised(ret.out[i])

\* C11 for the rows that keep a column: what the code does give
C11_MaskedWeightsKept ==
    (call.op = "forward" /\ ret.err = "" /\ Len(call.x) <= KLen)
    => \A i \in 1 .. Len(call.x) :
          LET kept == {j \in 1 .. KLen :
                         /\ call.mask = None \/ call.mask[j]
                         /\ bidir \/ j <= i + (KLen - Len(call.x))}
          IN  /\ {e.j : e \in ret.out[i].att} = kept
              /\ Normalised(ret.out[i]) = (kept # {})

\* the last forward call entered the relative-position region and left it
\* without an error: its lookup hit the cache or filled it, and the
\* projection of the offset vectors ran
RelposDone(r) == r.qk # None /\ "k_proj" \in r.ran

\* the table rows of the offsets of a call with sizes qk
RelposVec(qk) ==
    [i \in 1 .. qk[1] |->
        [j \in 1 .. qk[2] |-> relpos_emb(RelposIdx(qk[1], qk[2])[i][j] + maxlen)]]

C13_ContextCachedOnce ==
    [][(call'.op = "TS2S.forward" /\ ts2s.cell_mode)
        => IF ts2s.ctx = None
           THEN LET e == TransformerEncoder_forward(encoder, call'.x, call'.xmask)
                IN  /\ "encoder" \in ret'.ran
                    /\ encoder' = e.encoder
                    /\ e.err = "" => /\ ts2s'.ctx = e.h
                                     /\ ts2s'.x = call'.x
                                     /\ ts2s'.ctxmask = call'.xmask
                                     /\ ret'.ctx = e.h
                                     /\ ret'.ctxmask = call'.xmask
           ELSE /\ ret'.ran = {"decoder"}
                /\ UNCHANGED <<ts2s, encoder>>
                /\ ret'.ctx = ts2s.ctx
                /\ ret'.ctxmask = ts2s.ctxmask]_vars

\* a later call of a session, with another source and another mask than
\* the cached ones
C13_Witness ==
    /\ call.op = "TS2S.forward" /\ ts2s.cell_mode /\ ret.err = ""
    /\ call.cached # None /\ call.cached = ts2s.ctx
    /\ call.x # ts2s.x /\ call.xmask # ts2s.ctxmask
    /\ ret.ran = {"decoder"} /\ ret.ctx = ts2s.ctx /\ ret.ctxmask = ts2s.ctxmask
    /\ decoder.posoffset = 2

\* C14: TS2S.rec_reset clears the cached source, the cached encoder output
\* and the cached mask together and nothing else of the TS2S; the forward
\* call in cell mode that follows it runs the encoder on its own x and
\* xmask and gives the decoder that output and that mask.
C14_ResetClearsContext ==
    [][/\ call'.op = "TS2S.rec_reset"
            => /\ ts2s'.x = None /\ ts2s'.ctx = None /\ ts2s'.ctxmask = None
               /\ ts2s'.cell_mode = ts2s.cell_mode
               /\ UNCHANGED <<encoder, decoder>>
       /\ (call.op = "TS2S.rec_reset" /\ call'.op = "TS2S.forward" /\ ts2s.cell_mode)
            => LET e == TransformerEncoder_forward(encoder, call'.x, call'.xmask)
               IN  /\ "encoder" \in ret'.ran
                   /\ e.err = "" => /\ ts2s'.ctx = e.h /\ ts2s'.x = call'.x
                                    /\ ts2s'.ctxmask = call'.xmask
                                    /\ ret'.ctx = e.h /\ ret'.ctxmask = call'.xmask]_vars

\* a reset in a session that had cached the source with the mask
C14_Witness ==
    /\ call.op = "TS2S.rec_reset" /\ ts2s.cell_mode
    /\ call.cached # None /\ decoder.posoffset = 1
    /\ ts2s.x = None /\ ts2s.ctx = None /\ ts2s.ctxmask = None

\* no attention core of the tree, of the encoder's and of the decoder's
\* layers, has lm_mode true
NoCoreLmMode ==
    /\ \A l \in 1 .. Len(encoder.layers) : ~encoder.layers[l].slf_attn.lm_mode
    /\ \A l \in 1 .. Len(decoder.layers) :
          ~decoder.layers[l].slf_attn.lm_mode /\ ~decoder.layers[l].ctx_attn.lm_mode

\* C15: TS2S.set_cell_mode with lm_mode true fails, with enable true and
\* with enable false, and changes nothing: not the TS2S's flag, not the
\* decoder's flags, not a flag of a core of a layer.  So on a TS2S that is
\* driven through its own methods no core and no decoder has lm_mode true.
C15_LmModeRefused ==
    /\ [](~decoder.lm_mode /\ NoCoreLmMode)
    /\ [][(call'.op = "TS2S.set_cell_mode" /\ call'.lm_mode)
            => ret'.err # "" /\ UNCHANGED <<ts2s, encoder, decoder>>]_vars

\* refused in a session that is decoding: the session goes on
C15_Witness ==
    /\ call.op = "TS2S.set_cell_mode" /\ call.lm_mode /\ ~call.val
    /\ ret.err = "lm_mode=True is not supported in transformer-based seq2seq"
    /\ ts2s.cell_mode /\ decoder.cell_mode /\ decoder.posoffset = 1
    /\ \A l \in 1 .. Len(decoder.layers) :
          /\ decoder.layers[l].slf_attn.cell_mode
          /\ Len(decoder.layers[l].slf_attn.prev_k) = 1

\* C16: TransformerDecoderBlock.set_cell_mode changes only the block's
\* self-attention core: it succeeds or fails as that core's set_cell_mode
\* does, leaves that core as its set_cell_mode leaves it, and leaves the
\* cross-attention core as it was.  In every state the cross-attention core
\* of every layer has cell mode off and an empty history.
C16_CrossAttentionStateless ==
    /\ [](\A l \in 1 .. Len(decoder.layers) :
            /\ ~decoder.layers[l].ctx_attn.cell_mode
            /\ decoder.layers[l].ctx_attn.prev_k = None
            /\ decoder.layers[l].ctx_attn.prev_v = None)
    /\ [][(call'.op = "TS2S.set_cell_mode" /\ ~call'.lm_mode)
            => \A l \in 1 .. Len(decoder.layers) :
                  LET r == MHA_set_cell_mode(decoder.layers[l].slf_attn, call'.val,
                                             call'.horizon, call'.lm_mode)
                  IN  /\ ret'.err = r.err
                      /\ decoder'.layers[l].slf_attn = r.core
                      /\ decoder'.layers[l].ctx_attn = decoder.layers[l].ctx_attn]_vars

\* a decoding session two steps long: the self-attention cores hold two
\* steps, the cross-attention cores have attended the context and hold none
C16_Witness ==
    /\ call.op = "TS2S.forward" /\ ret.err = "" /\ ts2s.cell_mode
    /\ decoder.posoffset = 2
    /\ \A l \in 1 .. Len(decoder.layers) :
          /\ decoder.layers[l].slf_attn.cell_mode
          /\ Len(decoder.layers[l].slf_attn.prev_k) = 2
          /\ ~decoder.layers[l].ctx_attn.cell_mode
          /\ decoder.layers[l].ctx_attn.prev_k = None

\* C17: right after every successful set_cell_mode(True, ...) the history
\* holds no step, also when an earlier session was ended by
\* set_cell_mode(False) after some steps.
C17_SessionStartsEmpty ==
    (call.op = "set_cell_mode" /\ call.val /\ ret.err = "")
    => _prev_k = None /\ _prev_v = None

\* C17, with the reset the caller has to make: what the code does give
C17_SessionAfterReset ==
    [][(call.op \in {"rec_reset", "epoch_reset"} /\ ~_lm_mode
        /\ call'.op = "set_cell_mode" /\ call'.val /\ ret'.err = "")
        => _prev_k' = None /\ _prev_v' = None]_vars

\* C18: a TS2S holds a cached context only while it is decoding: whenever
\* its cell mode is off, no source, no encoder output and no mask is
\* cached; so the first forward call after set_cell_mode(True, ...) runs
\* the encoder on its own x.
C18_ContextOnlyWhenDecoding ==
    /\ [](~ts2s.cell_mode => ts2s.x = None /\ ts2s.ctx = None /\ ts2s.ctxmask = None)
    /\ [][(call.op = "TS2S.set_cell_mode" /\ call.val /\ ret.err = ""
           /\ call'.op = "TS2S.forward")
            => "encoder" \in ret'.ran]_vars

\* C18, with the reset the caller has to make: what the code does give
C18_ContextAfterReset ==
    [][(call.op = "TS2S.rec_reset" /\ call'.op = "TS2S.set_cell_mode")
        => ts2s'.ctx = None /\ ts2s'.x = None /\ ts2s'.ctxmask = None]_vars

\* the offset whose table row the relative-position term e of a score was
\* projected from
RelOffset(e) == e.rel[1][2][2]

\* C19: with relative positions and q_len <= k_len the vector looked up for
\* query row i and key column j (both from 0) is that of the offset
\* j - (i + (k_len - q_len)), and it is the one the score of (i, j) uses;
\* in cell mode with q_len = 1 the columns have the offsets
\* -(k_len - 1), ..., 0, those of the last query row of a call with
\* q_len = k_len.
C19_RightAlignedOffsets ==
    (call.op = "forward" /\ ret.err = "" /\ relpos # "off" /\ ret.qk[1] <= ret.qk[2])
    => /\ _cache_relpos_sizes = ret.qk
       /\ \A i \in 1 .. ret.qk[1] : \A j \in 1 .. ret.qk[2] :
             _cache_relpos_vec[i][j]
                 = <<"wave", (j - 1) - ((i - 1) + (ret.qk[2] - ret.qk[1]))>>
       /\ \A i \in 1 .. ret.qk[1] : \A e \in ret.out[i].att :
             RelOffset(e) = (e.j - 1) - ((i - 1) + (ret.qk[2] - ret.qk[1]))
       /\ (_cell_mode /\ ret.qk[1] = 1)
            => /\ \A j \in 1 .. ret.qk[2] :
                     _cache_relpos_vec[1][j] = <<"wave", 0 - (ret.qk[2] - j)>>
               /\ _cache_relpos_vec[1] = RelposVec(<<ret.qk[2], ret.qk[2]>>)[ret.qk[2]]

\* the second step of a session, its offsets -1, 0
C19_Witness ==
    /\ call.op = "forward" /\ ret.err = "" /\ relpos = "simple"
    /\ _cell_mode /\ ret.qk = <<1, 2>>
    /\ {RelOffset(e) : e \in ret.out[1].att} = {0 - 1, 0}

\* a call with two queries and three keys: the last query has offsets -2, -1, 0
C19_WitnessShortQuery ==
    /\ call.op = "forward" /\ ret.err = "" /\ relpos # "off"
    /\ ~_cell_mode /\ ret.qk = <<2, 3>>
    /\ _cache_relpos_vec[2] = <<<<"wave", 0 - 2>>, <<"wave", 0 - 1>>, <<"wave", 0>>>>

\* C20: a forward call changes nothing of the incremental state but the
\* history in cell mode: on a core not in cell mode it leaves the key and
\* value history as they were; whether it returns or raises, in either
\* mode, it leaves the cell-mode flag, the horizon and the lm_mode flag as
\* they were; on a core with relative positions off it leaves the
\* relative-position cache as it was.
C20_ForwardFrame ==
    [][call'.op = "forward"
        => /\ ~_cell_mode => (_prev_k' = _prev_k /\ _prev_v' = _prev_v)
           /\ _cell_mode' = _cell_mode /\ _horizon' = _horizon /\ _lm_mode' = _lm_mode
           /\ relpos = "off" => /\ _cache_relpos_sizes' = _cache_relpos_sizes
                                /\ _cache_relpos_vec' = _cache_relpos_vec]_vars

\* a forward call that returned, on a core taken out of cell mode with the
\* history of its session still held, and relative positions off
C20_Witness ==
    /\ call.op = "forward" /\ ret.err = ""
    /\ ~_cell_mode /\ _prev_k # None /\ call.steps = Len(_prev_k)
    /\ relpos = "off" /\ _cache_relpos_sizes = None

\* a forward call that raised in cell mode, the flags of the session kept
C20_WitnessRaised ==
    /\ call.op = "forward" /\ ret.err # ""
    /\ _cell_mode /\ _horizon # None /\ _lm_mode

\* C21: after any sequence of set_cell_mode calls on a TS2S, the calls that
\* raise included, the cell-mode flag of the TS2S, that of its decoder and
\* that of the self-attention core of every decoder layer have one value,
\* and the lm_mode flag of the decoder is that of every layer's core.
C21_FlagsAgree ==
    /\ decoder.cell_mode = ts2s.cell_mode
    /\ \A l \in 1 .. numlayers :
          /\ decoder.layers[l].slf_attn.cell_mode = decoder.cell_mode
          /\ decoder.layers[l].slf_attn.lm_mode = decoder.lm_mode

\* C21, for the calls that return: what the code does give
C21_FlagsAgreeAfterReturn ==
    (call.op = "TS2S.set_cell_mode" /\ ret.err = "") => C21_FlagsAgree

\* the decoder and the self-attention core of every layer are in cell mode
DecoderInCellMode ==
    /\ decoder.cell_mode
    /\ \A l \in 1 .. numlayers : decoder.layers[l].slf_attn.cell_mode

\* the history length of the self-attention core of layer l in decoder d
HistLen(d, l) == Len(d.layers[l].slf_attn.prev_k)

\* a successful forward in cell mode moves the offset and every history one
\* step on; a reset with lm_mode off sets them to 0; a forward outside cell
\* mode changes neither
C22_Steps ==
    /\ (call'.op = "TS2S.forward" /\ DecoderInCellMode /\ ret'.err = "")
        => /\ decoder'.posoffset = decoder.posoffset + 1
           /\ \A l \in 1 .. numlayers : HistLen(decoder', l) = HistLen(decoder, l) + 1
    /\ (call'.op = "decoder.rec_reset" /\ ~decoder.lm_mode)
        => /\ decoder'.posoffset = 0
           /\ \A l \in 1 .. numlayers : HistLen(decoder', l) = 0
    /\ (call'.op = "TS2S.forward" /\ ~decoder.cell_mode)
        => /\ decoder'.posoffset = decoder.posoffset
           /\ \A l \in 1 .. numlayers : HistLen(decoder', l) = HistLen(decoder, l)

\* C22: in a decoder in cell mode, reset together with all of its layers,
\* after any forward calls, returning or raising, and resets the position
\* offset is the history length of the self-attention core of every layer;
\* a successful cell-mode forward adds one to both, a reset with lm_mode
\* off sets both to 0, a forward outside cell mode changes neither.
C22_OffsetTracksHistory ==
    /\ [](DecoderInCellMode
            => \A l \in 1 .. numlayers : HistLen(decoder, l) = decoder.posoffset)
    /\ [][C22_Steps]_vars

\* C22, step by step: what the code does give
C22_OffsetAndHistoryStep == [][C22_Steps]_vars

\* the offsets of the vectors in the relative-position cache
CachedOffsets ==
    {_cache_relpos_vec[i][j][2] :
        i \in 1 .. Len(_cache_relpos_vec), j \in 1 .. ret.qk[2]}

\* C23: on a core with relative positions, a forward call with
\* 1 <= q_len <= k_len <= maxlen reads the table only at indices
\* offset + maxlen within 0 .. 2*maxlen - 1, its offsets within
\* -maxlen .. maxlen - 1; so does every cell-mode step up to a history of
\* maxlen steps.
C23_LookupInRange ==
    (/\ call.op = "forward" /\ relpos # "off" /\ ret.qk # None
     /\ 1 <= ret.qk[1] /\ ret.qk[1] <= ret.qk[2] /\ ret.qk[2] <= maxlen)
    => /\ ret.err # "index out of range"
       /\ _cache_relpos_sizes = ret.qk
       /\ \A o \in CachedOffsets :
             /\ 0 - maxlen <= o /\ o <= maxlen - 1
             /\ InTable(o + maxlen)

\* a cell-mode step whose history has maxlen steps: its lookup reaches the
\* offset -(maxlen - 1)
C23_Witness ==
    /\ call.op = "forward" /\ relpos # "off" /\ _cell_mode
    /\ ret.qk = <<1, maxlen>> /\ "relpos_emb" \in ret.ran
    /\ CachedOffsets = {0 - n : n \in 0 .. maxlen - 1}

\* a call with maxlen queries and keys: offsets -(maxlen - 1) .. maxlen - 1
C23_WitnessFull ==
    /\ call.op = "forward" /\ relpos # "off" /\ ~_cell_mode
    /\ ret.qk = <<maxlen, maxlen>> /\ "relpos_emb" \in ret.ran
    /\ CachedOffsets = {n - (maxlen - 1) : n \in 0 .. 2 * (maxlen - 1)}

\* C24: the one-entry relative-position cache is never stale: after any
\* forward calls with whatever (q_len, k_len), in and out of cell mode and
\* across resets, the matrix a call uses is the matrix computed anew for
\* its (q_len, k_len), and the stored key is the (q_len, k_len) of the
\* stored matrix.
C24_CacheNeverStale ==
    /\ IF _cache_relpos_sizes = None
       THEN _cache_relpos_vec = None
       ELSE _cache_relpos_vec = RelposVec(_cache_relpos_sizes)
    /\ (call.op = "forward" /\ relpos # "off" /\ ret.qk # None
        /\ ret.err \notin {"assert relpos_offset >= 0", "index out of range"})
        => /\ _cache_relpos_sizes = ret.qk
           /\ _cache_relpos_vec = RelposVec(ret.qk)
           /\ ret.err = ""
                => \A i \in 1 .. ret.qk[1] : \A e \in ret.out[i].att :
                      e.rel[1] = k_proj(RelposVec(ret.qk)[i][e.j])

\* a call served from the cache, after calls of other sizes, a session and
\* a reset
C24_Witness ==
    /\ call.op = "forward" /\ ret.err = "" /\ relpos # "off"
    /\ "relpos_emb" \notin ret.ran
    /\ ret.qk = <<2, 2>> /\ ~_cell_mode /\ _prev_k # None

====
